---- MODULE Spec2Model ----
(***************************************************************************)
(* A model of FallbackChain (src/src/fallback-chain.ts): a chain of        *)
(* providers kept sorted by priority, and execute(), which walks the chain *)
(* awaiting each provider's health check and its operation raced against a *)
(* timer.  JavaScript runs to completion between awaits, so every action   *)
(* below is one synchronous turn: from the resumption of an await (or a    *)
(* public call) to the next await or to the settlement of the promise.     *)
(*                                                                         *)
(* The variables trace, mutated, nextSeq, op are history variables: they   *)
(* record what the code did and never influence what it does.              *)
(*                                                                         *)
(* Specifications: Spec (one execute call, with add, remove and on at any  *)
(* moment), SpecPair and SpecInert (the same on chains of two providers    *)
(* and on chains with inert providers), SpecLive (one call under fair      *)
(* scheduling), SpecTwo (two calls interleaved), SpecRegistry (add and     *)
(* remove), SpecSnapshot (getItems and the array it returns), SpecQuery    *)
(* (getFirstAvailable).                                                    *)
(***************************************************************************)
EXTENDS Integers, Sequences, FiniteSets, TLC

\* ------------------------------------------------------------------ bounds
MaxAdds == 2
MaxListeners == 1
\* ... and in the specifications of the registry and of the queries:
MaxRegistered == 3
MaxEdits == 1

\* ---------------------------------------------------------------- providers
\* The Chainable objects the caller may register.  B and C tie on priority;
\* C has a health check; the fourth is inert (no execute), shares its name
\* with B and sorts first.  rejectsAnError says whether the provider's
\* operation, when it fails, rejects with an Error or with another value.
CoreCatalog ==
  << [name |-> "A", priority |-> 2, hasExecute |-> TRUE,  hasHealthCheck |-> FALSE, rejectsAnError |-> TRUE],
     [name |-> "B", priority |-> 1, hasExecute |-> TRUE,  hasHealthCheck |-> FALSE, rejectsAnError |-> FALSE],
     [name |-> "C", priority |-> 1, hasExecute |-> TRUE,  hasHealthCheck |-> TRUE,  rejectsAnError |-> TRUE],
     [name |-> "B", priority |-> 0, hasExecute |-> FALSE, hasHealthCheck |-> FALSE, rejectsAnError |-> TRUE] >>
\* ... and one more for the specifications about inert providers: inert,
\* with a health check, sorting last.
Catalog ==
  CoreCatalog \o
  << [name |-> "C", priority |-> 3, hasExecute |-> FALSE, hasHealthCheck |-> TRUE,  rejectsAnError |-> TRUE] >>

Providers == 1..Len(CoreCatalog)
AllProviders == 1..Len(Catalog)
\* The executing providers that tie on priority.
Tied == {p \in Providers : Catalog[p].hasExecute /\ Catalog[p].priority = 1}
\* An executing provider among the inert ones.
WithInert == {p \in AllProviders : ~Catalog[p].hasExecute \/ Catalog[p].name = "A"}
Names == {Catalog[p].name : p \in Providers}
\* The execute calls in flight: one in most specifications, two in SpecTwo.
Calls == {1, 2}
Single == {1}
EventNames == {"success", "error", "fallback", "skipped"}

\* An entry of this.items: the provider object and (history) the ordinal of
\* the add call that inserted it.
NoEntry == [p |-> 0, seq |-> 0]
Name(e) == Catalog[e.p].name
Priority(e) == Catalog[e.p].priority
HasExecute(e) == Catalog[e.p].hasExecute
HasHealthCheck(e) == Catalog[e.p].hasHealthCheck

VARIABLES
  items,      \* this.items
  listeners,  \* the EventEmitter's listeners, per event: "none", "ok", "throws"
  options,    \* this.options: continueOnError, onFallback ("noop" or "throws")
  pc,         \* per execute call: "idle", "health", "race", "done"
  idx,        \* per call: the loop variable i
  cur,        \* per call: the loop's const item
  lastError,  \* per call: the local lastError
  outcome,    \* per call: how the returned promise settled
  timers,     \* the setTimeout timers armed and not yet fired
  pending,    \* provider operations that lost their race and have not settled
  trace,      \* per call (history): what the call did, in order
  mutated,    \* per call (history): add or remove ran after the call began
  nextSeq,    \* (history) the number of add calls so far
  snap,       \* the array a getItems call returned, in the caller's hands
  gfa,        \* the getFirstAvailable call: its position and (history) its probes
  op          \* (history) the last add or remove: its argument and this.items before it

\* What the queries keep; the specifications without queries leave it alone.
aux == <<snap, gfa, op>>

vars == <<items, listeners, options, pc, idx, cur, lastError, outcome,
          timers, pending, trace, mutated, nextSeq, snap, gfa, op>>

\* ------------------------------------------------------------------- errors
NoError == [type |-> "none", src |-> 0, wrapped |-> FALSE]
\* new Error('Timeout')
TimeoutError == [type |-> "timeout", src |-> 0, wrapped |-> FALSE]
\* new Error('All items in fallback chain failed')
ExhaustedError == [type |-> "exhausted", src |-> 0, wrapped |-> FALSE]
\* What provider e's operation rejects with: an Error, or any other value.
OpError(e) ==
  [type |-> IF Catalog[e.p].rejectsAnError THEN "op" ELSE "opraw", src |-> e.seq, wrapped |-> FALSE]
\* What provider e's health check rejects with.
HealthError(e) == [type |-> "health", src |-> e.seq, wrapped |-> FALSE]
\* What a subscriber of event ev throws.
ListenerError(ev) == [type |-> "listener:" \o ev, src |-> 0, wrapped |-> FALSE]
\* ERR_UNHANDLED_ERROR: emit('error', x) with no 'error' listener and x not an Error.
UnhandledError == [type |-> "unhandled", src |-> 0, wrapped |-> FALSE]
\* What the onFallback callback throws.
CallbackError == [type |-> "onFallback", src |-> 0, wrapped |-> FALSE]

\* error instanceof Error ? error : new Error(String(error))
Normalize(err) ==
  IF err.type = "opraw" THEN [err EXCEPT !.wrapped = TRUE] ELSE err

\* ------------------------------------------------------------------ sorting
\* Array.prototype.sort with (a, b) => a.priority - b.priority: a stable sort
\* (ECMAScript 2019), here as insertion of each element after the elements
\* that do not compare greater.  (InsertUnstable: before the equal ones.)
InsertUnstable(s, e) ==
  LET k == Cardinality({j \in 1..Len(s) : Priority(s[j]) < Priority(e)})
  IN  SubSeq(s, 1, k) \o <<e>> \o SubSeq(s, k + 1, Len(s))
Insert(s, e) ==
  LET k == Cardinality({j \in 1..Len(s) : Priority(s[j]) <= Priority(e)})
  IN  SubSeq(s, 1, k) \o <<e>> \o SubSeq(s, k + 1, Len(s))

RECURSIVE SortByPriority(_)
SortByPriority(s) ==
  IF s = <<>> THEN <<>>
  ELSE Insert(SortByPriority(SubSeq(s, 1, Len(s) - 1)), s[Len(s)])

\* Array.prototype.filter with item => item.name !== name.
\* (FilterFirst: only the first entry of that name dropped.)
RECURSIVE FilterFirst(_, _)
FilterFirst(s, name) ==
  IF s = <<>> THEN <<>>
  ELSE IF Name(Head(s)) = name THEN Tail(s)
  ELSE <<Head(s)>> \o FilterFirst(Tail(s), name)
RECURSIVE Filter(_, _)
Filter(s, name) ==
  IF s = <<>> THEN <<>>
  ELSE (IF Name(Head(s)) # name THEN <<Head(s)>> ELSE <<>>) \o Filter(Tail(s), name)

\* ------------------------------------------------------------ the history
\* One entry of a call's trace.  t is what happened:
\*   "probe"      item.healthCheck() was called        (src, i)
\*   "health"     the health check settled             (src, i, name, ev: "true", "false", "throw")
\*   "invoke"     item.execute(request) was called     (src, i)
\*   "settle"     the race settled                     (src, i, name, to, err, ev: "ok", "fail", "timeout")
\*   "emit"       this.emit(ev, ...) was called        (src, i, ev, name, to, err)
\*   "onFallback" this.options.onFallback(name, to)    (src, i, name, to)
\*   "return"     the call returned src's result       (src, i)
\*   "throw"      the call threw err                   (err)
\* src is the entry's ordinal, p its provider object.
Entry(t, e, i, ev, name, to, err) ==
  [t |-> t, src |-> e.seq, p |-> e.p, i |-> i, ev |-> ev, name |-> name, to |-> to, err |-> err]

Pending == [kind |-> "pending", src |-> 0, err |-> NoError]

\* No array returned yet.  alias says whether the array in the caller's hands
\* is the very array this.items refers to; edits (history) counts the
\* caller's changes to it.
NoSnapshot == [taken |-> FALSE, alias |-> FALSE, val |-> <<>>, edits |-> 0]
\* No getFirstAvailable call yet.  live says whether the array the for-of
\* iterator walks is still the one this.items refers to; arr is that array
\* once it is not; nxt is the iterator's next index; result is how the
\* call's promise settled; probes (history) the health checks it awaited.
NoQuery ==
  [pc |-> "idle", live |-> TRUE, arr |-> <<>>, nxt |-> 0, cur |-> NoEntry,
   result |-> [kind |-> "pending", item |-> NoEntry, err |-> NoError],
   probes |-> <<>>, before |-> <<>>, mutated |-> FALSE]
NoOp == [kind |-> "none", name |-> "", p |-> 0, before |-> <<>>]

\* ------------------------------------------------------------ EventEmitter
\* What this.emit(ev, payload) throws (NoError: it returns).  Node's emit calls
\* the listeners synchronously, so a listener's exception leaves emit; and
\* emit('error', x) with no 'error' listener throws ERR_UNHANDLED_ERROR.
EmitThrows(ev) ==
  IF listeners[ev] = "throws" THEN ListenerError(ev)
  ELSE IF ev = "error" /\ listeners[ev] = "none" THEN UnhandledError
  ELSE NoError

\* What this.options.onFallback(from, to) throws (NoError: it returns).
OnFallbackThrows == IF options.onFallback = "throws" THEN CallbackError ELSE NoError

\* ----------------------------------------------------------------- execute
\* Each operator below runs the code from one point to the next await or to
\* the settlement of the call, and yields the call's state there:
\* [pc, idx, cur, lastError, outcome, trace, arm], arm saying whether a timer
\* was armed on the way.

\* The call's promise rejects with err.
Throw(i, item, le, tr, err) ==
  [pc |-> "done", idx |-> i, cur |-> item, lastError |-> le,
   outcome |-> [kind |-> "error", src |-> 0, err |-> err],
   trace |-> Append(tr, Entry("throw", NoEntry, i, "", "", "", err)), arm |-> FALSE]

\* return result (line 86)
Return(i, item, le, tr) ==
  [pc |-> "done", idx |-> i, cur |-> item, lastError |-> le,
   outcome |-> [kind |-> "value", src |-> item.seq, err |-> NoError],
   trace |-> Append(tr, Entry("return", item, i, "", "", "", NoError)), arm |-> FALSE]

\* await item.healthCheck() (line 74)
AwaitHealth(i, item, le, tr) ==
  [pc |-> "health", idx |-> i, cur |-> item, lastError |-> le, outcome |-> Pending,
   trace |-> Append(tr, Entry("probe", item, i, "", "", "", NoError)), arm |-> FALSE]

\* await this.executeWithTimeout(item.execute, request) (lines 84, 115-120):
\* fn(request) is called, the timer is armed, and the call awaits the race.
\* (AwaitRaceNoTimer: the operation awaited alone, with no timer armed.)
AwaitRaceNoTimer(i, item, le, tr) ==
  [pc |-> "race", idx |-> i, cur |-> item, lastError |-> le, outcome |-> Pending,
   trace |-> Append(tr, Entry("invoke", item, i, "", "", "", NoError)), arm |-> FALSE]
AwaitRace(i, item, le, tr) ==
  [pc |-> "race", idx |-> i, cur |-> item, lastError |-> le, outcome |-> Pending,
   trace |-> Append(tr, Entry("invoke", item, i, "", "", "", NoError)), arm |-> TRUE]

RECURSIVE Loop(_, _, _)
\* The try block entered for item at index i (lines 81-87): a provider
\* without execute falls through to the next iteration.
\* (TryUnawaited: the operation called and not awaited.)
TryUnawaited(i, item, le, tr) ==
  IF HasExecute(item)
  THEN Loop(i + 1, le, Append(tr, Entry("invoke", item, i, "", "", "", NoError)))
  ELSE Loop(i + 1, le, tr)
Try(i, item, le, tr) ==
  IF HasExecute(item) THEN AwaitRace(i, item, le, tr) ELSE Loop(i + 1, le, tr)

\* The for loop from its test with i (lines 69-79, 105).
Loop(i, le, tr) ==
  IF i < Len(items)
  THEN LET item == items[i + 1]
       IN  IF HasHealthCheck(item) THEN AwaitHealth(i, item, le, tr)
           ELSE Try(i, item, le, tr)
  ELSE Throw(i, NoEntry, le, tr, IF le # NoError THEN le ELSE ExhaustedError)

\* The end of the catch block (lines 99-102).
AfterFallback(i, item, le, tr) ==
  IF ~options.continueOnError THEN Throw(i, item, le, tr, le)
  ELSE Loop(i + 1, le, tr)

\* The catch block entered with error (lines 88-102): lastError is set
\* (line 89), 'error' is emitted (line 90), and for an item that is not the
\* last, onFallback is called (line 95) and then 'fallback' is emitted
\* (line 96); continueOnError is looked at after that (line 99).
\* (CatchNotifyingFirst: 'fallback' emitted before onFallback is called.)
CatchNotifyingFirst(i, item, error, tr) ==
  LET le  == Normalize(error)
      tr1 == Append(tr, Entry("emit", item, i, "error", Name(item), "", le))
  IN  IF EmitThrows("error") # NoError
      THEN Throw(i, item, le, tr1, EmitThrows("error"))
      ELSE IF i < Len(items) - 1
      THEN LET nextItem == items[i + 2]
               tr2 == Append(tr1, Entry("emit", item, i, "fallback", Name(item), Name(nextItem), NoError))
               tr3 == Append(tr2, Entry("onFallback", item, i, "", Name(item), Name(nextItem), NoError))
           IN  IF EmitThrows("fallback") # NoError
               THEN Throw(i, item, le, tr2, EmitThrows("fallback"))
               ELSE IF OnFallbackThrows # NoError
               THEN Throw(i, item, le, tr3, OnFallbackThrows)
               ELSE AfterFallback(i, item, le, tr3)
      ELSE AfterFallback(i, item, le, tr1)
Catch(i, item, error, tr) ==
  LET le  == Normalize(error)
      tr1 == Append(tr, Entry("emit", item, i, "error", Name(item), "", le))
  IN  IF EmitThrows("error") # NoError
      THEN Throw(i, item, le, tr1, EmitThrows("error"))
      ELSE IF i < Len(items) - 1
      THEN LET nextItem == items[i + 2]
               tr2 == Append(tr1, Entry("onFallback", item, i, "", Name(item), Name(nextItem), NoError))
               tr3 == Append(tr2, Entry("emit", item, i, "fallback", Name(item), Name(nextItem), NoError))
           IN  IF OnFallbackThrows # NoError
               THEN Throw(i, item, le, tr2, OnFallbackThrows)
               ELSE IF EmitThrows("fallback") # NoError
               THEN Throw(i, item, le, tr3, EmitThrows("fallback"))
               ELSE AfterFallback(i, item, le, tr3)
      ELSE AfterFallback(i, item, le, tr1)

\* The health check resolved false (lines 75-78); the emit is outside the try.
Skip(i, item, le, tr) ==
  LET tr1 == Append(tr, Entry("emit", item, i, "skipped", Name(item), "", NoError))
  IN  IF EmitThrows("skipped") # NoError
      THEN Throw(i, item, le, tr1, EmitThrows("skipped"))
      ELSE Loop(i + 1, le, tr1)

\* The race resolved with the operation's result (lines 85-86); the emit is
\* inside the try, so what it throws is caught at line 88.
Succeed(i, item, le, tr) ==
  LET tr1 == Append(tr, Entry("emit", item, i, "success", Name(item), "", NoError))
  IN  IF EmitThrows("success") # NoError
      THEN Catch(i, item, EmitThrows("success"), tr1)
      ELSE Return(i, item, le, tr1)

\* The race rejected on the timer (line 118): caught at line 88.
\* (TimedOutSkipped: the timeout passed over in silence.)
TimedOutSkipped(i, item, le, tr) == Loop(i + 1, le, tr)
TimedOut(i, item, le, tr) == Catch(i, item, TimeoutError, tr)

\* ----------------------------------------------------------------- actions
Running(c) == pc[c] \in {"health", "race"}

\* The ordinal of the call's current race: the number of operations it invoked.
RaceId(c) == Cardinality({j \in DOMAIN trace[c] : trace[c][j].t = "invoke"})

\* (history) The race of the call's current item settled; the entry keeps
\* the item's name and the name of the item then next in this.items ("": none).
SettledAt(tr, item, i, ev, err) ==
  Append(tr, Entry("settle", item, i, ev, Name(item),
                   IF i < Len(items) - 1 THEN Name(items[i + 2]) ELSE "", err))
Settled(c, ev, err) == SettledAt(trace[c], cur[c], idx[c], ev, err)

\* The call goes on from r.  lastError is a local of execute, one per call.
\* (ResumeSharingLastError: lastError kept in one place for all calls.)
ResumeSharingLastError(c, r) ==
  /\ pc' = [pc EXCEPT ![c] = r.pc]
  /\ idx' = [idx EXCEPT ![c] = r.idx]
  /\ cur' = [cur EXCEPT ![c] = r.cur]
  /\ lastError' = [d \in Calls |-> r.lastError]
  /\ outcome' = [outcome EXCEPT ![c] = r.outcome]
  /\ trace' = [trace EXCEPT ![c] = r.trace]
Resume(c, r) ==
  /\ pc' = [pc EXCEPT ![c] = r.pc]
  /\ idx' = [idx EXCEPT ![c] = r.idx]
  /\ cur' = [cur EXCEPT ![c] = r.cur]
  /\ lastError' = [lastError EXCEPT ![c] = r.lastError]
  /\ outcome' = [outcome EXCEPT ![c] = r.outcome]
  /\ trace' = [trace EXCEPT ![c] = r.trace]

\* The calls that have begun have the chain changed under them.
Mutated == [c \in Calls |-> mutated[c] \/ pc[c] # "idle"]

Init ==
  /\ items = <<>>
  /\ listeners = [ev \in EventNames |-> "none"]
  /\ options \in [continueOnError : BOOLEAN, onFallback : {"noop", "throws"}]
  /\ pc = [c \in Calls |-> "idle"]
  /\ idx = [c \in Calls |-> 0]
  /\ cur = [c \in Calls |-> NoEntry]
  /\ lastError = [c \in Calls |-> NoError]
  /\ outcome = [c \in Calls |-> Pending]
  /\ timers = {}
  /\ pending = {}
  /\ trace = [c \in Calls |-> <<>>]
  /\ mutated = [c \in Calls |-> FALSE]
  /\ nextSeq = 0
  /\ snap = NoSnapshot
  /\ gfa = NoQuery
  /\ op = NoOp

\* add(item) (lines 44-47): push, then sort.
Register(p) ==
  /\ nextSeq' = nextSeq + 1
  /\ items' = SortByPriority(Append(items, [p |-> p, seq |-> nextSeq + 1]))
  /\ mutated' = Mutated
  /\ UNCHANGED <<listeners, options, pc, idx, cur, lastError, outcome, timers, pending, trace>>

Add(p) == nextSeq < MaxAdds /\ Register(p)

\* remove(name) (lines 52-54)
Remove(name) ==
  /\ items' = Filter(items, name)
  /\ mutated' = Mutated
  /\ UNCHANGED <<listeners, options, pc, idx, cur, lastError, outcome, timers, pending,
                 trace, nextSeq>>

\* on(ev, listener), inherited from EventEmitter: kind says whether the
\* listener returns ("ok") or throws ("throws").
On(ev, kind) ==
  /\ listeners[ev] = "none"
  /\ Cardinality({e \in EventNames : listeners[e] # "none"}) < MaxListeners
  /\ listeners' = [listeners EXCEPT ![ev] = kind]
  /\ UNCHANGED <<items, options, pc, idx, cur, lastError, outcome, timers, pending,
                 trace, mutated, nextSeq>>

\* execute(request) is called (lines 66-69) and runs to its first await.
Execute(c) ==
  /\ pc[c] = "idle"
  /\ LET r == Loop(0, NoError, <<>>)
     IN  /\ Resume(c, r)
         /\ timers' = IF r.arm THEN timers \cup {[c |-> c, k |-> 1]} ELSE timers
  /\ UNCHANGED <<items, listeners, options, pending, mutated, nextSeq>>

\* The awaited health check settles: resolves true or false, or rejects.
HealthSettles(c, h) ==
  /\ pc[c] = "health"
  /\ LET tr == Append(trace[c], Entry("health", cur[c], idx[c], h, Name(cur[c]), "", NoError))
         r  == CASE h = "true"  -> Try(idx[c], cur[c], lastError[c], tr)
                 [] h = "false" -> Skip(idx[c], cur[c], lastError[c], tr)
                 [] h = "throw" -> Throw(idx[c], cur[c], lastError[c], tr, HealthError(cur[c]))
     IN  /\ Resume(c, r)
         /\ timers' = IF r.arm THEN timers \cup {[c |-> c, k |-> RaceId(c) + 1]} ELSE timers
  /\ UNCHANGED <<items, listeners, options, pending, mutated, nextSeq>>

\* What a race's settlement leaves armed: the timer of the race that has
\* just settled is never cleared, and the next race arms its own.
Rearm(c, r, fired) ==
  (timers \ fired) \cup (IF r.arm THEN {[c |-> c, k |-> RaceId(c) + 1]} ELSE {})

\* The provider's operation resolves before the timer fires.
OperationResolves(c) ==
  /\ pc[c] = "race"
  /\ LET r == Succeed(idx[c], cur[c], lastError[c], Settled(c, "ok", NoError))
     IN  Resume(c, r) /\ timers' = Rearm(c, r, {})
  /\ UNCHANGED <<items, listeners, options, pending, mutated, nextSeq>>

\* The provider's operation rejects before the timer fires.
OperationRejects(c) ==
  /\ pc[c] = "race"
  /\ LET err == OpError(cur[c])
         r   == Catch(idx[c], cur[c], err, Settled(c, "fail", err))
     IN  Resume(c, r) /\ timers' = Rearm(c, r, {})
  /\ UNCHANGED <<items, listeners, options, pending, mutated, nextSeq>>

\* The timer of the call's current race fires before the operation settles:
\* the race rejects with Timeout and the operation is left running.
TimerFires(c) ==
  /\ pc[c] = "race"
  /\ [c |-> c, k |-> RaceId(c)] \in timers
  /\ LET r == TimedOut(idx[c], cur[c], lastError[c], Settled(c, "timeout", TimeoutError))
     IN  Resume(c, r) /\ timers' = Rearm(c, r, {[c |-> c, k |-> RaceId(c)]})
  /\ pending' = pending \cup {[c |-> c, k |-> RaceId(c)]}
  /\ UNCHANGED <<items, listeners, options, mutated, nextSeq>>

\* A timer fires whose race has settled already: reject() on a promise that
\* lost the race has no effect.
StaleTimerFires(t) ==
  /\ t \in timers
  /\ ~(pc[t.c] = "race" /\ t.k = RaceId(t.c))
  /\ timers' = timers \ {t}
  /\ UNCHANGED <<items, listeners, options, pc, idx, cur, lastError, outcome, pending,
                 trace, mutated, nextSeq>>

\* An operation that lost its race settles: Promise.race has settled, so the
\* settlement is ignored.
AbandonedSettles(o) ==
  /\ o \in pending
  /\ pending' = pending \ {o}
  /\ UNCHANGED <<items, listeners, options, pc, idx, cur, lastError, outcome, timers,
                 trace, mutated, nextSeq>>

\* ------------------------------------------------- the registry, observed
\* [...this.items] (line 60): a new array with the same elements.
\* (ReturnItself: this.items itself handed out.)
ReturnItself(s) == [taken |-> TRUE, alias |-> TRUE, val |-> s, edits |-> 0]
Copy(s) == [taken |-> TRUE, alias |-> FALSE, val |-> s, edits |-> 0]

\* get(name) (lines 141-143): the first entry of that name, or undefined.
Get(name) ==
  IF \E k \in 1..Len(items) : Name(items[k]) = name
  THEN items[CHOOSE k \in 1..Len(items) :
               Name(items[k]) = name /\ \A j \in 1..(k - 1) : Name(items[j]) # name]
  ELSE NoEntry

\* get length (lines 148-150)
Length == Len(items)

\* (history) add or remove is recorded with its argument and this.items as
\* it was.
Recorded(kind, name, p) ==
  op' = [kind |-> kind, name |-> name, p |-> p, before |-> items]

\* What add does to an array handed out: push and sort act on the array
\* this.items refers to, so an array that is this.items shows the change.
SnapshotOnAdd == snap' = IF snap.alias THEN [snap EXCEPT !.val = items'] ELSE snap
\* What remove does to it: filter makes a new array and this.items is set to
\* it, so an array that was this.items is this.items no longer.
SnapshotOnRemove == snap' = [snap EXCEPT !.alias = FALSE]

\* new FallbackChain(options) with no options given (lines 33-38).
Defaults == [continueOnError |-> TRUE, onFallback |-> "noop"]
DefaultInit == Init /\ options = Defaults

\* add(item) and remove(name), recorded.
AddRecorded(p) ==
  /\ nextSeq < MaxRegistered
  /\ Register(p)
  /\ Recorded("add", Catalog[p].name, p)
  /\ UNCHANGED <<snap, gfa>>
RemoveRecorded(name) ==
  /\ Remove(name)
  /\ Recorded("remove", name, 0)
  /\ UNCHANGED <<snap, gfa>>

RegistryNext ==
  \/ \E p \in Providers : AddRecorded(p)
  \/ \E name \in Names : RemoveRecorded(name)

SpecRegistry == DefaultInit /\ [][RegistryNext]_vars

\* getItems() (lines 59-61)
GetItems ==
  /\ snap' = Copy(items)
  /\ UNCHANGED <<items, listeners, options, pc, idx, cur, lastError, outcome, timers,
                 pending, trace, mutated, nextSeq, gfa, op>>

\* The caller changes the array getItems returned: "push" appends a
\* provider object, "pop" drops the last element, "reverse" reverses the
\* array.  Were the array this.items itself, the chain would change with it.
Reverse(s) == [j \in 1..Len(s) |-> s[Len(s) + 1 - j]]
MutateSnapshot(how) ==
  /\ snap.taken
  /\ snap.edits < MaxEdits
  /\ LET val == CASE how = "push"    -> Append(snap.val, [p |-> 1, seq |-> 0])
                  [] how = "pop"     -> SubSeq(snap.val, 1, Len(snap.val) - 1)
                  [] how = "reverse" -> Reverse(snap.val)
     IN  /\ how = "pop" => snap.val # <<>>
         /\ val # snap.val
         /\ snap' = [snap EXCEPT !.val = val, !.edits = @ + 1]
         /\ items' = IF snap.alias THEN val ELSE items
         /\ mutated' = IF snap.alias THEN Mutated ELSE mutated
  /\ UNCHANGED <<listeners, options, pc, idx, cur, lastError, outcome, timers,
                 pending, trace, nextSeq, gfa, op>>

\* add(item) and remove(name) while the caller holds an array from getItems.
AddAfterGetItems(p) ==
  /\ nextSeq < MaxRegistered
  /\ Register(p)
  /\ SnapshotOnAdd
  /\ UNCHANGED <<gfa, op>>
RemoveAfterGetItems(name) ==
  /\ Remove(name)
  /\ SnapshotOnRemove
  /\ UNCHANGED <<gfa, op>>

\* The providers registered in SpecSnapshot: those that only execute.
Plain == {p \in Providers : Catalog[p].hasExecute /\ ~Catalog[p].hasHealthCheck}

SnapshotNext ==
  \/ \E p \in Plain : AddAfterGetItems(p)
  \/ \E name \in Names : RemoveAfterGetItems(name)
  \/ GetItems
  \/ \E how \in {"push", "pop", "reverse"} : MutateSnapshot(how)

SpecSnapshot == DefaultInit /\ [][SnapshotNext]_vars

\* ------------------------------------------------------ getFirstAvailable
\* The for-of loop of getFirstAvailable (lines 127-135) from the iterator's
\* next step, k elements of the array arr consumed, to the next await or to
\* the return: the first element with no health check is returned at once.
\* (WalkUnprobed: the next element returned whether it has a health check
\* or not.)
WalkUnprobed(q, arr, k) ==
  IF k < Len(arr)
  THEN [q EXCEPT !.pc = "done", !.nxt = k + 1, !.cur = arr[k + 1],
                 !.result = [kind |-> "value", item |-> arr[k + 1], err |-> NoError]]
  ELSE [q EXCEPT !.pc = "done", !.nxt = k, !.cur = NoEntry,
                 !.result = [kind |-> "null", item |-> NoEntry, err |-> NoError]]
Walk(q, arr, k) ==
  IF k < Len(arr)
  THEN LET item == arr[k + 1]
       IN  IF HasHealthCheck(item)
           THEN [q EXCEPT !.pc = "probe", !.nxt = k + 1, !.cur = item]
           ELSE [q EXCEPT !.pc = "done", !.nxt = k + 1, !.cur = item,
                          !.result = [kind |-> "value", item |-> item, err |-> NoError]]
  ELSE [q EXCEPT !.pc = "done", !.nxt = k, !.cur = NoEntry,
                 !.result = [kind |-> "null", item |-> NoEntry, err |-> NoError]]

\* The array the iterator walks.
Walked == IF gfa.live THEN items ELSE gfa.arr

\* getFirstAvailable() is called (line 126) and runs to its first await.
GetFirstAvailable ==
  /\ gfa.pc = "idle"
  /\ gfa' = Walk([gfa EXCEPT !.before = items], items, 0)
  /\ UNCHANGED <<items, listeners, options, pc, idx, cur, lastError, outcome, timers,
                 pending, trace, mutated, nextSeq, snap, op>>

\* The awaited health check settles (lines 129-130): true returns the item,
\* false goes on with the loop, and a rejection leaves the function.
ProbeSettles(h) ==
  /\ gfa.pc = "probe"
  /\ LET q == [gfa EXCEPT !.probes = Append(@, [src |-> gfa.cur.seq, h |-> h])]
     IN  gfa' = CASE h = "true"  -> [q EXCEPT !.pc = "done",
                                               !.result = [kind |-> "value", item |-> gfa.cur, err |-> NoError]]
                  [] h = "false" -> Walk(q, Walked, gfa.nxt)
                  [] h = "throw" -> [q EXCEPT !.pc = "done",
                                               !.result = [kind |-> "error", item |-> NoEntry,
                                                           err |-> HealthError(gfa.cur)]]
  /\ UNCHANGED <<items, listeners, options, pc, idx, cur, lastError, outcome, timers,
                 pending, trace, mutated, nextSeq, snap, op>>

\* (history) The getFirstAvailable call in flight has the chain changed
\* under it.
QueryMutated == [gfa EXCEPT !.mutated = @ \/ gfa.pc # "idle"]

\* add(item) and remove(name) while getFirstAvailable may be awaiting: add
\* changes the array the iterator walks; remove sets this.items to a new
\* array, and the iterator keeps walking the old one.
AddDuringQuery(p) ==
  /\ nextSeq < MaxRegistered
  /\ Register(p)
  /\ gfa' = QueryMutated
  /\ UNCHANGED <<snap, op>>
RemoveDuringQuery(name) ==
  /\ Remove(name)
  /\ gfa' = IF gfa.pc = "probe" /\ gfa.live
            THEN [QueryMutated EXCEPT !.live = FALSE, !.arr = items]
            ELSE QueryMutated
  /\ UNCHANGED <<snap, op>>

QueryNext ==
  \/ \E p \in AllProviders : AddDuringQuery(p)
  \/ \E name \in Names : RemoveDuringQuery(name)
  \/ GetFirstAvailable
  \/ \E h \in {"true", "false", "throw"} : ProbeSettles(h)

SpecQuery == DefaultInit /\ [][QueryNext]_vars

\* One execute call, with add, remove and on at any moment.
Next ==
  \/ \E p \in Providers : Add(p) /\ UNCHANGED aux
  \/ \E name \in Names : Remove(name) /\ UNCHANGED aux
  \/ \E ev \in EventNames, kind \in {"ok", "throws"} : On(ev, kind) /\ UNCHANGED aux
  \/ \E c \in Single : Execute(c) /\ UNCHANGED aux
  \/ \E c \in Single, h \in {"true", "false", "throw"} : HealthSettles(c, h) /\ UNCHANGED aux
  \/ \E c \in Single : OperationResolves(c) /\ UNCHANGED aux
  \/ \E c \in Single : OperationRejects(c) /\ UNCHANGED aux
  \/ \E c \in Single : TimerFires(c) /\ UNCHANGED aux
  \/ \E t \in timers : StaleTimerFires(t) /\ UNCHANGED aux
  \/ \E o \in pending : AbandonedSettles(o) /\ UNCHANGED aux

Spec == Init /\ [][Next]_vars

\* One execute call on chains of the two providers that tie on priority (B,
\* and C with its health check), with add, remove and on at any moment.
PairNext ==
  \/ \E p \in Tied : Add(p) /\ UNCHANGED aux
  \/ \E name \in Names : Remove(name) /\ UNCHANGED aux
  \/ \E ev \in EventNames, kind \in {"ok", "throws"} : On(ev, kind) /\ UNCHANGED aux
  \/ \E c \in Single : Execute(c) /\ UNCHANGED aux
  \/ \E c \in Single, h \in {"true", "false", "throw"} : HealthSettles(c, h) /\ UNCHANGED aux
  \/ \E c \in Single : OperationResolves(c) /\ UNCHANGED aux
  \/ \E c \in Single : OperationRejects(c) /\ UNCHANGED aux
  \/ \E c \in Single : TimerFires(c) /\ UNCHANGED aux
  \/ \E t \in timers : StaleTimerFires(t) /\ UNCHANGED aux
  \/ \E o \in pending : AbandonedSettles(o) /\ UNCHANGED aux

SpecPair == Init /\ [][PairNext]_vars

\* One execute call on chains with inert providers, with add, remove and on
\* at any moment.
InertNext ==
  \/ \E p \in WithInert : Add(p) /\ UNCHANGED aux
  \/ \E name \in Names : Remove(name) /\ UNCHANGED aux
  \/ \E ev \in EventNames, kind \in {"ok", "throws"} : On(ev, kind) /\ UNCHANGED aux
  \/ \E c \in Single : Execute(c) /\ UNCHANGED aux
  \/ \E c \in Single, h \in {"true", "false", "throw"} : HealthSettles(c, h) /\ UNCHANGED aux
  \/ \E c \in Single : OperationResolves(c) /\ UNCHANGED aux
  \/ \E c \in Single : OperationRejects(c) /\ UNCHANGED aux
  \/ \E c \in Single : TimerFires(c) /\ UNCHANGED aux
  \/ \E t \in timers : StaleTimerFires(t) /\ UNCHANGED aux
  \/ \E o \in pending : AbandonedSettles(o) /\ UNCHANGED aux

SpecInert == Init /\ [][InertNext]_vars

\* No call has begun.
Quiet == \A c \in Calls : pc[c] = "idle"

\* Two execute calls on one chain, interleaved in every way; add, remove and
\* on run before the calls begin.  The timers of settled races and the
\* operations abandoned, which touch no call, are left to fire and settle
\* after the calls.
TwoNext ==
  \/ \E p \in Providers : Add(p) /\ Quiet /\ UNCHANGED aux
  \/ \E name \in Names : Remove(name) /\ Quiet /\ UNCHANGED aux
  \/ \E ev \in EventNames, kind \in {"ok", "throws"} : On(ev, kind) /\ Quiet /\ UNCHANGED aux
  \/ \E c \in Calls : Execute(c) /\ UNCHANGED aux
  \/ \E c \in Calls, h \in {"true", "false", "throw"} : HealthSettles(c, h) /\ UNCHANGED aux
  \/ \E c \in Calls : OperationResolves(c) /\ UNCHANGED aux
  \/ \E c \in Calls : OperationRejects(c) /\ UNCHANGED aux
  \/ \E c \in Calls : TimerFires(c) /\ UNCHANGED aux

SpecTwo == Init /\ [][TwoNext]_vars

\* One execute call on a chain set up before it: add, remove and on run
\* before the call begins, so the chain the call walks is a fixed finite one.
LiveNext ==
  \/ \E p \in Providers : Add(p) /\ Quiet /\ UNCHANGED aux
  \/ \E name \in Names : Remove(name) /\ Quiet /\ UNCHANGED aux
  \/ \E ev \in EventNames, kind \in {"ok", "throws"} : On(ev, kind) /\ Quiet /\ UNCHANGED aux
  \/ \E c \in Single : Execute(c) /\ UNCHANGED aux
  \/ \E c \in Single, h \in {"true", "false", "throw"} : HealthSettles(c, h) /\ UNCHANGED aux
  \/ \E c \in Single : OperationResolves(c) /\ UNCHANGED aux
  \/ \E c \in Single : OperationRejects(c) /\ UNCHANGED aux
  \/ \E c \in Single : TimerFires(c) /\ UNCHANGED aux
  \/ \E t \in timers : StaleTimerFires(t) /\ UNCHANGED aux
  \/ \E o \in pending : AbandonedSettles(o) /\ UNCHANGED aux

\* The same program under the scheduling Node gives it: a timer that is armed
\* fires (the event loop runs its timers), and, as the health checks are
\* the caller's and are taken to settle, an awaited health check settles.  No
\* fairness is asked of a provider's operation: it may never settle.
Fairness ==
  \A c \in Single :
    /\ WF_vars(TimerFires(c) /\ UNCHANGED aux)
    /\ WF_vars(\E h \in {"true", "false", "throw"} : HealthSettles(c, h) /\ UNCHANGED aux)

SpecLive == Init /\ [][LiveNext]_vars /\ Fairness

\* ------------------------------------------------------ reading the trace
\* The positions of call c's trace whose entry is one of the kinds T.
At(c, T) == {j \in DOMAIN trace[c] : trace[c][j].t \in T}
\* ... and, for "health", "settle" and "emit" entries, whose ev is in E.
AtEv(c, T, E) == {j \in At(c, T) : trace[c][j].ev \in E}
\* The emit entries of event ev.
Emits(c, ev) == AtEv(c, {"emit"}, {ev})
\* The races that failed: the operation rejected, or the timer fired first.
Failures(c) == AtEv(c, {"settle"}, {"fail", "timeout"})
\* The position of the entry inserted by the s-th add in this.items (0: none).
Pos(s) ==
  IF \E k \in 1..Len(items) : items[k].seq = s
  THEN CHOOSE k \in 1..Len(items) : items[k].seq = s
  ELSE 0

\* ------------------------------------------------------------------ claims

\* The providers call c tried, in the order of the sorted sequence.
C1_InOrder(c) ==
  \A j, k \in At(c, {"probe", "invoke"}) :
    (j < k /\ trace[c][j].src # trace[c][k].src)
      => (/\ Pos(trace[c][j].src) # 0
          /\ Pos(trace[c][j].src) < Pos(trace[c][k].src)
          /\ Priority(items[Pos(trace[c][j].src)]) <= Priority(items[Pos(trace[c][k].src)]))
\* The scenario A(priority 2, succeeds), B(priority 1, fails), default options.
C1_Scenario(c) ==
  (/\ pc[c] = "done"
   /\ options = [continueOnError |-> TRUE, onFallback |-> "noop"]
   /\ Len(items) = 2
   /\ Name(items[1]) = "B" /\ HasExecute(items[1]) /\ ~HasHealthCheck(items[1])
   /\ Name(items[2]) = "A" /\ HasExecute(items[2]) /\ ~HasHealthCheck(items[2])
   \* B fails, A succeeds
   /\ \A j \in At(c, {"settle"}) : trace[c][j].ev = (IF trace[c][j].src = items[1].seq THEN "fail" ELSE "ok"))
  => (/\ \E j \in At(c, {"invoke"}), f \in Emits(c, "fallback"), k \in At(c, {"invoke"}) :
           /\ j < f /\ f < k
           /\ trace[c][j].src = items[1].seq
           /\ \A b \in At(c, {"invoke"}) : j <= b
           /\ trace[c][f].name = "B" /\ trace[c][f].to = "A"
           /\ trace[c][k].src = items[2].seq
      /\ outcome[c] = [kind |-> "value", src |-> items[2].seq, err |-> NoError])
\* C1: within one execute call on a chain that is not mutated during the
\* call, providers are attempted in ascending priority order: a provider
\* health-checked or invoked before another precedes it in the sorted
\* sequence; and on the chain B(priority 1, fails), A(priority 2, succeeds)
\* B is invoked first, fallback{from: B, to: A} is emitted, then A is invoked
\* and execute returns A's result.
C1_PriorityOrder ==
  \A c \in Calls : ~mutated[c] => (C1_InOrder(c) /\ C1_Scenario(c))

\* C2: after every add and every remove, in every state another operation
\* can observe (an in-flight execute included), this.items is sorted
\* ascending by priority, and entries of equal priority are in the order of
\* their insertion.
C2_SortedStable ==
  \A j, k \in 1..Len(items) :
    j < k => \/ Priority(items[j]) < Priority(items[k])
             \/ (Priority(items[j]) = Priority(items[k]) /\ items[j].seq < items[k].seq)
\* An execute is awaiting, and an add that ran meanwhile was sorted ahead of
\* the entry the call is trying.
C2_Witness ==
  /\ Running(1) /\ mutated[1]
  /\ Len(items) = 2
  /\ items[1].seq > items[2].seq
  /\ cur[1] = items[2]

\* C3: at most one success: execute returns a value if and only if some
\* provider's operation completed before its timeout fired; the value is
\* that provider's result, exactly one success event is emitted for the
\* call, and after that success no further provider is health-checked or
\* invoked in that call.
C3_AtMostOneSuccess ==
  \A c \in Calls :
    /\ pc[c] = "done" =>
         (outcome[c].kind = "value" <=> AtEv(c, {"settle"}, {"ok"}) # {})
    /\ \A j \in AtEv(c, {"settle"}, {"ok"}) :
         /\ pc[c] = "done" => outcome[c] = [kind |-> "value", src |-> trace[c][j].src, err |-> NoError]
         /\ Cardinality(Emits(c, "success")) = 1
         /\ \A k \in At(c, {"probe", "invoke"}) : k < j

\* C4: exhaustion: if every provider fails, is unhealthy or is inert,
\* execute fails; when at least one provider was invoked and failed, the
\* error surfaced is the failure of the last provider that failed; the
\* generic error is surfaced exactly when no provider was ever invoked.
\* (Stated of the calls in which every health check resolved.)
C4_Exhaustion ==
  \A c \in Calls :
    (/\ pc[c] = "done"
     /\ AtEv(c, {"settle"}, {"ok"}) = {}
     /\ AtEv(c, {"health"}, {"throw"}) = {})
    => /\ outcome[c].kind = "error"
       /\ \A j \in Failures(c) :
            (\A k \in Failures(c) : k <= j) => outcome[c].err = Normalize(trace[c][j].err)
       /\ outcome[c].err = ExhaustedError <=> At(c, {"invoke"}) = {}

\* C5: short circuit: with continueOnError = false, the first provider
\* failure (operation error or timeout) ends the call at once with that
\* provider's error, and no provider after it is health-checked or invoked.
C5_ShortCircuit ==
  \A c \in Calls :
    ~options.continueOnError =>
      \A j \in Failures(c) :
        /\ pc[c] = "done"
        /\ outcome[c] = [kind |-> "error", src |-> 0, err |-> Normalize(trace[c][j].err)]
        /\ \A k \in At(c, {"probe", "invoke"}) : k < j

\* C6: skip is not failure: a provider whose health check returns false is
\* never invoked in that call, gets exactly one skipped{name, unhealthy}
\* notification, records no last-error, causes no error event, no fallback
\* event and no onFallback call naming it as the source, and execute advances
\* to the next provider.
C6_SkipIsNotFailure ==
  \A c \in Calls :
    \A j \in AtEv(c, {"health"}, {"false"}) :
      LET e == trace[c][j]
          mine(T) == {k \in At(c, T) : trace[c][k].src = e.src /\ trace[c][k].i = e.i}
      IN  /\ \A k \in At(c, {"invoke"}) : trace[c][k].src # e.src
          /\ Cardinality(mine({"emit"})) = 1
          /\ \A k \in mine({"emit"}) :
               k = j + 1 /\ trace[c][k].ev = "skipped" /\ trace[c][k].name = e.name
          /\ mine({"onFallback"}) = {}
          /\ lastError[c].type # "health"
          \* what follows the notification is the next iteration of the loop
          /\ j + 2 \in DOMAIN trace[c] =>
               \/ trace[c][j + 2].t \in {"probe", "invoke"} /\ trace[c][j + 2].i > e.i
               \/ trace[c][j + 2].t = "throw" /\ trace[c][j + 2].err \in {lastError[c], ExhaustedError}
          /\ j + 1 \in DOMAIN trace[c]

\* The responses call c got from its providers.
C7_Responses(c) == At(c, {"health", "settle"})
\* The outcome the responses determine.
C7_Determined(c) ==
  LET R    == C7_Responses(c)
      last == trace[c][CHOOSE j \in R : \A k \in R : k <= j]
      fail == IF Failures(c) = {} THEN ExhaustedError
              ELSE Normalize(trace[c][CHOOSE j \in Failures(c) : \A k \in Failures(c) : k <= j].err)
  IN  IF R # {} /\ last.t = "settle" /\ last.ev = "ok"
      THEN [kind |-> "value", src |-> last.src, err |-> NoError]
      ELSE IF R # {} /\ last.t = "health" /\ last.ev = "throw"
      THEN [kind |-> "error", src |-> 0, err |-> [type |-> "health", src |-> last.src, wrapped |-> FALSE]]
      ELSE [kind |-> "error", src |-> 0, err |-> fail]
\* The call ended where the responses end it.
C7_EndsWhereItShould(c) ==
  LET R    == C7_Responses(c)
      last == trace[c][CHOOSE j \in R : \A k \in R : k <= j]
  IN  \/ R # {} /\ last.t = "settle" /\ last.ev = "ok"
      \/ R # {} /\ last.t = "health" /\ last.ev = "throw"
      \/ R # {} /\ last.t = "settle" /\ ~options.continueOnError
      \/ idx[c] >= Len(items)
\* C7: notifications never affect control flow: the providers tried and the
\* outcome of execute are the same for every set of subscribers, none at all
\* and failing ones included.  The outcome is then the one the providers'
\* responses alone determine: the result of the operation that completed;
\* the failure of a health check that rejected; else the last failure, or
\* the generic error; and a call ends only on a success, on a failure with
\* continueOnError = false, on a rejected health check, or past the end of
\* the chain.
C7_NotificationsInert ==
  \A c \in Calls :
    (pc[c] = "done" /\ ~mutated[c]) =>
      (outcome[c] = C7_Determined(c) /\ C7_EndsWhereItShould(c))

\* The timer of call c's race fires in this step.
C8_TimesOut(c) ==
  /\ pc[c] = "race"
  /\ Len(trace'[c]) > Len(trace[c])
  /\ trace'[c][Len(trace[c]) + 1].t = "settle"
  /\ trace'[c][Len(trace[c]) + 1].ev = "timeout"
\* x with the failure of call c's current operation replaced by Timeout.
C8_Err(c, x) ==
  IF x.type \in {"op", "opraw"} /\ x.src = cur[c].seq THEN TimeoutError ELSE x
C8_Entry(c, e) ==
  [e EXCEPT !.err = C8_Err(c, e.err),
            !.ev = IF e.t = "settle" THEN "timeout" ELSE e.ev]
\* The step leaves call c where the rejection of its operation would have
\* left it, with Timeout for the operation's error.
C8_AsAFailure(c) ==
  LET r == Catch(idx[c], cur[c], OpError(cur[c]), Settled(c, "fail", OpError(cur[c])))
      n == Len(trace[c])
  IN  /\ pc'[c] = r.pc /\ idx'[c] = r.idx /\ cur'[c] = r.cur
      /\ lastError'[c] = TimeoutError
      /\ outcome'[c] = [r.outcome EXCEPT !.err = C8_Err(c, r.outcome.err)]
      /\ Len(trace'[c]) = Len(r.trace)
      /\ \A j \in 1..n : trace'[c][j] = trace[c][j]
      /\ \A j \in (n + 1)..Len(r.trace) : trace'[c][j] = C8_Entry(c, r.trace[j])
      /\ trace'[c][n + 2].t = "emit" /\ trace'[c][n + 2].ev = "error"
      /\ trace'[c][n + 2].name = Name(cur[c]) /\ trace'[c][n + 2].err = TimeoutError
\* C8: each attempt races the provider's operation against a fresh timer; if
\* the timer fires before the operation settles, the attempt is a failure
\* with a Timeout error handled exactly like an execution failure (error
\* event, fallback, continueOnError), and the abandoned operation's later
\* settlement changes neither the call's result nor its emitted events.
C8_Timeout ==
  [][\A c \in Calls :
       \* a fresh timer for every operation invoked
       /\ RaceId(c)' > RaceId(c) =>
            /\ RaceId(c)' = RaceId(c) + 1
            /\ [c |-> c, k |-> RaceId(c) + 1] \in timers' \ timers
       /\ C8_TimesOut(c) => C8_AsAFailure(c)
       \* an abandoned operation settles
       /\ (pending' # pending /\ pending' \subseteq pending) =>
            UNCHANGED <<pc, idx, cur, lastError, outcome, trace, items>>]_vars
\* A provider's timer fired first, the call failed with Timeout, and the
\* abandoned operations have settled since.
C8_Witness ==
  /\ pc[1] = "done"
  /\ AtEv(1, {"settle"}, {"timeout"}) # {}
  /\ pending = {}
  /\ outcome[1] = [kind |-> "error", src |-> 0, err |-> TimeoutError]

\* C9: a provider is tried at most once per execute call, for every
\* interleaving of the call with add and remove: no registered entry has its
\* operation invoked more than once in the call.
C9_AtMostOnce ==
  \A c \in Calls :
    \A j, k \in At(c, {"invoke"}) : trace[c][j].src = trace[c][k].src => j = k

\* C10: whenever a provider's attempt fails and it is not the last provider
\* in the sequence, exactly one fallback{from, to} notification is emitted
\* and onFallback is invoked exactly once, both with the failed provider's
\* name and the name of the structurally next provider, whatever
\* continueOnError is; when the failed provider is the last, neither occurs.
C10_Fallback ==
  \A c \in Calls :
    \A j \in Failures(c) :
      LET e == trace[c][j]
          mine(T, E) == {k \in AtEv(c, T, E) : k > j /\ trace[c][k].src = e.src /\ trace[c][k].i = e.i}
      IN  IF e.to # ""
          THEN /\ Cardinality(mine({"emit"}, {"fallback"})) = 1
               /\ Cardinality(mine({"onFallback"}, {""})) = 1
               /\ \A k \in mine({"emit"}, {"fallback"}) \cup mine({"onFallback"}, {""}) :
                    trace[c][k].name = e.name /\ trace[c][k].to = e.to
          ELSE mine({"emit"}, {"fallback"}) \cup mine({"onFallback"}, {""}) = {}

\* C11: health-check failures are absorbed: whatever a provider's health
\* probe does (resolves false, or rejects), execute never fails with the
\* probe's error; the probe's only effects are the skipped notification and
\* the advance to the next provider.
C11_HealthAbsorbed ==
  \A c \in Calls :
    /\ outcome[c].err.type # "health"
    /\ \A j \in AtEv(c, {"health"}, {"false", "throw"}) :
         LET e == trace[c][j]
         IN  /\ j + 1 \in DOMAIN trace[c]
             /\ trace[c][j + 1].t = "emit" /\ trace[c][j + 1].ev = "skipped"
             /\ trace[c][j + 1].name = e.name
             /\ j + 2 \in DOMAIN trace[c] =>
                  \/ trace[c][j + 2].t \in {"probe", "invoke"} /\ trace[c][j + 2].i > e.i
                  \/ trace[c][j + 2].t = "throw" /\ trace[c][j + 2].err \in {lastError[c], ExhaustedError}

\* C12: every execute call eventually settles, and settles once, with a
\* value or with one error, provided every health check settles; also when a
\* provider's operation never settles, the timer of the attempt ending it.
C12_Settles ==
  /\ \A c \in Calls : (pc[c] # "idle") ~> (pc[c] = "done")
  /\ [](\A c \in Calls :
          /\ pc[c] = "done" <=> outcome[c].kind # "pending"
          /\ outcome[c].kind \in {"pending", "value", "error"}
          /\ outcome[c].kind = "error" <=> outcome[c].err # NoError
          \* what ends every wait of the call is there
          /\ pc[c] = "race" => [c |-> c, k |-> RaceId(c)] \in timers)
  /\ [][\A c \in Calls : outcome[c].kind # "pending" => outcome'[c] = outcome[c]]_vars
\* A call has settled although an operation it invoked never did: the timer
\* ended the attempt, and the operation is still running.
C12_Witness ==
  /\ pc[1] = "done"
  /\ \E o \in pending : o.c = 1
  /\ outcome[1].kind = "error"

\* The entries of s whose name is not name, in their order in s.
C13_Others(s, name) == SelectSeq(s, LAMBDA e : Name(e) # name)
\* C13: remove(name) removes every entry whose name is name and nothing
\* else: what remains is the other entries in their previous relative order
\* (so the sequence stays sorted), and when no entry has that name the
\* sequence is unchanged.
C13_RemoveFrame ==
  op.kind = "remove" =>
    /\ items = C13_Others(op.before, op.name)
    /\ \A k \in 1..Len(items) : Name(items[k]) # op.name
    /\ (\A k \in 1..Len(op.before) : Name(op.before[k]) # op.name) => items = op.before
    /\ C2_SortedStable
\* A remove took two entries of one name from between and around others.
C13_Witness ==
  /\ op.kind = "remove"
  /\ Len(op.before) = 3
  /\ Len(items) = 1
  /\ Name(op.before[2]) # op.name

\* The health checks the call awaited that settled with h, by entry.
C14_Probed(h) == {gfa.probes[j].src : j \in {k \in DOMAIN gfa.probes : gfa.probes[k].h = h}}
\* Entry e is available: it has no health check, or its health check
\* returned true.
C14_Available(e) == ~HasHealthCheck(e) \/ e.seq \in C14_Probed("true")
\* The call awaited the health checks of exactly the first n entries of s
\* that have one, once each and in order.
C14_ProbesUpTo(s, n) ==
  LET H == SelectSeq(SubSeq(s, 1, n), HasHealthCheck)
  IN  /\ Len(gfa.probes) = Len(H)
      /\ \A j \in 1..Len(H) : gfa.probes[j].src = H[j].seq
C15_Chain ==
  <<items, Copy(items).val, [name \in Names |-> Get(name)], Length, Loop(0, NoError, <<>>)>>
\* C15: getItems returns an independent snapshot of the current order: the
\* caller's adding, removing or reordering elements of the returned array
\* changes neither the chain's sequence, nor what getItems, get and length
\* return later, nor the order a later execute tries the providers in; and a
\* later add or remove on the chain does not change the returned array.
C15_Snapshot ==
  [][/\ \* getItems returns the current order and leaves the chain alone
       (snap' # snap /\ snap'.edits = 0 /\ items' = items) =>
          (snap'.val = items /\ C15_Chain' = C15_Chain)
     /\ \* the caller changes the returned array
       snap'.edits > snap.edits =>
          (/\ C15_Chain' = C15_Chain
           /\ UNCHANGED <<items, pc, idx, cur, lastError, outcome, trace, mutated>>)
     /\ \* add or remove changes the chain
       (snap.taken /\ items' # items) => snap'.val = snap.val]_vars
\* The caller reversed the array getItems returned, an add ran after that
\* getItems, and the chain has the two entries in their sorted order still.
C15_Witness ==
  /\ snap.taken /\ snap.edits = 1
  /\ Len(snap.val) = 2 /\ Len(items) = 3
  /\ \E j, k \in 1..Len(items) :
       j < k /\ items[j] = snap.val[2] /\ items[k] = snap.val[1]

\* The health checks and races of call c begun and not settled yet.
C16_Open(c) ==
  {j \in At(c, {"probe", "invoke"}) :
     ~\E k \in At(c, {"health", "settle"}) :
        k > j /\ trace[c][k].src = trace[c][j].src /\ trace[c][k].i = trace[c][j].i}
\* C16: within one execute call the attempts are strictly sequential: no
\* health check or operation is started before the health check and the
\* race started before it have settled, so at most one provider of the call
\* is being evaluated at any moment.
C16_Sequential ==
  \A c \in Calls :
    /\ Cardinality(C16_Open(c)) <= 1
    /\ C16_Open(c) # {} <=> Running(c)
    /\ \A j \in C16_Open(c) :
         /\ j = Len(trace[c])
         /\ trace[c][j].src = cur[c].seq /\ trace[c][j].i = idx[c]
         /\ trace[c][j].t = "probe" <=> pc[c] = "health"
    /\ \A j \in At(c, {"probe", "invoke"}) :
         j < Len(trace[c]) =>
           /\ trace[c][j + 1].t = (IF trace[c][j].t = "probe" THEN "health" ELSE "settle")
           /\ trace[c][j + 1].src = trace[c][j].src
           /\ trace[c][j + 1].i = trace[c][j].i
\* The call awaits its second provider's race, the first one's having ended
\* on the timer with the operation still running.
C16_Witness ==
  /\ pc[1] = "race"
  /\ Cardinality(At(1, {"invoke"})) = 2
  /\ \E o \in pending : o.c = 1
  /\ cur[1].seq \notin {trace[1][j].src : j \in AtEv(1, {"settle"}, {"timeout"})}

\* The entries of call c's trace that are of a provider without execute.
C17_OfInert(c) == {j \in DOMAIN trace[c] : trace[c][j].p # 0 /\ ~Catalog[trace[c][j].p].hasExecute}
\* C17: a provider with no execute is inert in execute: it is never invoked,
\* is never the source of a success, records no last-error and emits no
\* error or fallback notification; with no health check, or with one that
\* returns true, it emits no notification at all and the loop goes on to
\* the next index; so a chain made only of inert providers fails with the
\* generic exhaustion error.
C17_Inert ==
  \A c \in Calls :
    /\ \A j \in C17_OfInert(c) :
         LET e == trace[c][j]
         IN  /\ e.t \in {"probe", "health", "emit"}
             /\ e.t = "emit" =>
                  /\ e.ev = "skipped"
                  /\ trace[c][j - 1].t = "health" /\ trace[c][j - 1].ev = "false"
                  /\ trace[c][j - 1].src = e.src
             /\ Catalog[e.p].hasHealthCheck
             /\ lastError[c].src # e.src
             /\ (e.t = "health" /\ e.ev = "true" /\ j < Len(trace[c])) =>
                  \/ trace[c][j + 1].t \in {"probe", "invoke"} /\ trace[c][j + 1].i > e.i
                  \/ trace[c][j + 1].t = "throw" /\ trace[c][j + 1].err \in {lastError[c], ExhaustedError}
    /\ (pc[c] = "done" /\ ~mutated[c] /\ \A k \in 1..Len(items) : ~HasExecute(items[k])) =>
         outcome[c] = [kind |-> "error", src |-> 0, err |-> ExhaustedError]

\* The responses call c got, in order: its health checks' and its races'.
C18_Responses(c) == SelectSeq(trace[c], LAMBDA e : e.t \in {"health", "settle"})
\* Where execute is from r after the response e, run alone.
C18_After(r, e) ==
  IF r.pc = "health" /\ e.t = "health"
  THEN LET tr == Append(r.trace, Entry("health", r.cur, r.idx, e.ev, Name(r.cur), "", NoError))
       IN  CASE e.ev = "true"  -> Try(r.idx, r.cur, r.lastError, tr)
             [] e.ev = "false" -> Skip(r.idx, r.cur, r.lastError, tr)
             [] e.ev = "throw" -> Throw(r.idx, r.cur, r.lastError, tr, HealthError(r.cur))
  ELSE IF r.pc = "race" /\ e.t = "settle"
  THEN CASE e.ev = "ok"      -> Succeed(r.idx, r.cur, r.lastError, SettledAt(r.trace, r.cur, r.idx, "ok", NoError))
         [] e.ev = "fail"    -> Catch(r.idx, r.cur, OpError(r.cur),
                                      SettledAt(r.trace, r.cur, r.idx, "fail", OpError(r.cur)))
         [] e.ev = "timeout" -> TimedOut(r.idx, r.cur, r.lastError,
                                         SettledAt(r.trace, r.cur, r.idx, "timeout", TimeoutError))
  ELSE [r EXCEPT !.pc = "apart"]
RECURSIVE C18_Replay(_, _)
C18_Replay(r, resp) ==
  IF resp = <<>> THEN r ELSE C18_Replay(C18_After(r, Head(resp)), Tail(resp))
\* The call alone on this chain with these subscribers, given the responses
\* call c got.
C18_Alone(c) == C18_Replay(Loop(0, NoError, <<>>), C18_Responses(c))
\* C18: concurrent execute calls on one chain, with no add or remove
\* running, are independent: in every interleaving of two calls each call
\* tries the same providers in the same order and settles with the same
\* value or error as it does alone given the same responses of its
\* providers; the lastError of one call is never surfaced by the other.
C18_Independent ==
  \A c \in Calls :
    pc[c] # "idle" =>
      LET r == C18_Alone(c)
      IN  /\ trace[c] = r.trace
          /\ pc[c] = r.pc /\ idx[c] = r.idx /\ cur[c] = r.cur
          /\ lastError[c] = r.lastError
          /\ outcome[c] = r.outcome
\* The two calls are under way at once on one chain: the first has had a
\* failure and awaits its second provider, the other awaits the first
\* provider and has had none.
C18_Witness ==
  /\ pc[1] = "race" /\ Running(2)
  /\ lastError[1] # NoError /\ lastError[2] = NoError
  /\ idx[1] = 1 /\ idx[2] = 0
  /\ ~mutated[1] /\ ~mutated[2]

\* Entry k of call c's trace is of kind t (and event ev) and of the same
\* attempt as the entry e.
C19_Is(c, k, t, ev, e) ==
  /\ k \in DOMAIN trace[c]
  /\ trace[c][k].t = t /\ trace[c][k].ev = ev
  /\ trace[c][k].src = e.src /\ trace[c][k].i = e.i /\ trace[c][k].name = e.name
\* The error notifications carry the failure just recorded as lastError.
C19_ErrorAfterRecord(c) ==
  \A j \in Emits(c, "error") :
    LET e == trace[c][j]
    IN  /\ e.err # NoError
        /\ \/ /\ j - 1 \in Failures(c)
              /\ trace[c][j - 1].src = e.src /\ e.err = Normalize(trace[c][j - 1].err)
           \/ /\ C19_Is(c, j - 1, "emit", "success", e)
              /\ e.err = ListenerError("success")
        /\ (\A k \in Emits(c, "error") : k <= j) => lastError[c] = e.err
\* continueOnError is looked at when the notifications are through: the
\* call throws the failure right after the error notification only when the
\* failed provider was the last, and right after the fallback notification
\* only when continueOnError is false (or the chain has shrunk meanwhile).
C19_ThenContinueOnError(c) ==
  \A k \in At(c, {"throw"}) :
    (k > 1 /\ trace[c][k].err = lastError[c] /\ trace[c][k - 1].t \in {"emit", "onFallback"}) =>
      \/ trace[c][k - 1].t = "emit" /\ trace[c][k - 1].ev = "fallback"
           /\ (~options.continueOnError \/ mutated[c])
      \/ trace[c][k - 1].t = "emit" /\ trace[c][k - 1].ev = "error"
           /\ \E j \in At(c, {"settle"}) :
                j < k /\ trace[c][j].src = trace[c][k - 1].src /\ trace[c][j].i = trace[c][k - 1].i
                      /\ trace[c][j].to = ""
      \/ trace[c][k - 1].t = "emit" /\ trace[c][k - 1].ev = "skipped"
\* C19 (as amended): for each failed attempt of a non-last provider the
\* steps occur in this order: the failure is recorded as lastError, the
\* error notification is emitted, onFallback is called with the two names,
\* the fallback notification is emitted with the same two names, and only
\* then is continueOnError looked at; so every fallback notification is
\* preceded by an onFallback call and by an error notification of the same
\* provider in the same call.
C19_CallbackThenFallback ==
  \A c \in Calls :
    /\ C19_ErrorAfterRecord(c)
    /\ \A k \in At(c, {"onFallback"}) : C19_Is(c, k - 1, "emit", "error", trace[c][k])
    /\ \A k \in Emits(c, "fallback") :
         /\ C19_Is(c, k - 1, "onFallback", "", trace[c][k])
         /\ trace[c][k - 1].to = trace[c][k].to
         /\ C19_Is(c, k - 2, "emit", "error", trace[c][k])
    /\ C19_ThenContinueOnError(c)
\* C19: for each failed attempt of a non-last provider the steps occur in
\* this order: the failure is recorded as lastError, the error notification
\* is emitted, then the fallback notification is emitted, then onFallback is
\* called with the same two names, and only then is continueOnError looked
\* at; every fallback notification is preceded by an error notification of
\* the same provider in the same call.
C19_FallbackThenCallback ==
  \A c \in Calls :
    /\ C19_ErrorAfterRecord(c)
    /\ \A k \in Emits(c, "fallback") : C19_Is(c, k - 1, "emit", "error", trace[c][k])
    /\ \A k \in At(c, {"onFallback"}) :
         /\ C19_Is(c, k - 1, "emit", "fallback", trace[c][k])
         /\ trace[c][k - 1].to = trace[c][k].to
    /\ C19_ThenContinueOnError(c)
\* With continueOnError false a provider that is not the last failed: the
\* error notification, the onFallback call and the fallback notification
\* took place, and then the call threw the failure.
C19_Witness ==
  /\ pc[1] = "done" /\ ~options.continueOnError /\ ~mutated[1]
  /\ Len(trace[1]) > 4
  /\ trace[1][Len(trace[1])].t = "throw"
  /\ trace[1][Len(trace[1])].err = lastError[1]
  /\ trace[1][Len(trace[1]) - 1].t = "emit" /\ trace[1][Len(trace[1]) - 1].ev = "fallback"

\* C20: the race does not leak the timer when the operation wins: once a
\* provider's operation has settled before its timer fired, the timer armed
\* for that attempt is released; so no timer armed by an execute call is
\* still armed when the call has returned a value.
C20_TimerReleased ==
  \A c \in Calls :
    /\ \A t \in timers : t.c = c => (pc[c] = "race" /\ t.k = RaceId(c))
    /\ outcome[c].kind = "value" => \A t \in timers : t.c # c

====
